---- MODULE Spec2Model ----
(***************************************************************************)
(* Model of backend/variant-corner-service/app.py: the /normalize handler  *)
(* (fetch_image, find_card_corners, order_points, warp_perspective,        *)
(* fallback_bbox, encode_image).                                           *)
(*                                                                         *)
(* Pixel contents are not modelled.  An image is its width and height; an  *)
(* edge map is its size plus whether it has any non-zero pixel; a contour  *)
(* is its enclosed area (cv2.contourArea) and the polygon cv2.approxPolyDP *)
(* yields for it.  The results of the OpenCV calls on pixels (imdecode,    *)
(* Canny, findContours, findNonZero) are drawn nondeterministically from   *)
(* bounded sets at the step that makes the call.  Everything the Python    *)
(* code itself computes (the branch structure, sorted(...)[:5], the loop   *)
(* over candidates, order_points, the response) is computed as written.    *)
(*                                                                         *)
(* An optional value (Python None or a value) is <<>> or <<v>>.            *)
(***************************************************************************)
EXTENDS Integers, Sequences, FiniteSets, TLC

VARIABLES
    req,        \* NormalizeRequest: [imageBase64, imageUrl]
    pc,         \* position of the handler
    image,      \* normalize: image (decoded pixel buffer), optional
    edges,      \* the edge map of this invocation, optional
    contours,   \* the contours of this invocation in detection order, optional
    corners,    \* find_card_corners' return value / normalize: corners
    rect,       \* warp_perspective: rect = order_points(pts), optional
    warped,     \* normalize: warped (output pixel buffer) or "raise"
    response,   \* the returned NormalizeResponse, optional
    status,     \* HTTP status of the reply, 0 while none was sent
    fetched,    \* TRUE once requests.get was called
    trace       \* the stages run so far, in order

vars == <<req, pc, image, edges, contours, corners, rect, warped, response,
          status, fetched, trace>>

\* ------------------------------------------------------------------ bounds

MaxDim == 2             \* decoded images are w x h with w, h in 1..MaxDim
MaxArea == 2            \* contour areas are in 1..MaxArea
MaxSceneContours == 2   \* contours per image in the handler specification
MaxContours == 6        \* contours per candidate list in SpecFinder
MaxCoord == 2           \* order_points inputs have coordinates in 0..MaxCoord

\* ------------------------------------------------------- program constants

TARGET_W == 800
TARGET_H == 1100
TopK == 5
QuadVertices == 4

\* ---------------------------------------------------------------- optional

None == <<>>
Some(v) == <<v>>
Val(o) == o[1]

Truthy(o) == o # None /\ Val(o) # ""

Min(a, b) == IF a < b THEN a ELSE b

\* ------------------------------------------------- order_points (l. 40-48)

\* pts.sum(axis=1)[i]: x + y of one point
np_sum(p) == p[1] + p[2]

np_diff_reversed(p) == p[1] - p[2]

\* np.diff(pts, axis=1)[i]: second column minus first column, y - x
np_diff(p) == p[2] - p[1]

RECURSIVE argmin_from(_, _, _)
argmin_from(v, i, best) ==
    IF i > Len(v) THEN best
    ELSE argmin_from(v, i + 1, IF v[i] < v[best] THEN i ELSE best)

\* np.argmin: index of the first occurrence of the minimum (1-based here)
argmin(v) == argmin_from(v, 2, 1)

RECURSIVE argmax_from(_, _, _)
argmax_from(v, i, best) ==
    IF i > Len(v) THEN best
    ELSE argmax_from(v, i + 1, IF v[i] > v[best] THEN i ELSE best)

\* np.argmax: index of the first occurrence of the maximum (1-based here)
argmax(v) == argmax_from(v, 2, 1)

order_points_keep_second(pts) ==
    LET s == [i \in 1..Len(pts) |-> np_sum(pts[i])]
        diff == [i \in 1..Len(pts) |-> np_diff(pts[i])]
    IN  <<pts[argmin(s)], pts[2], pts[argmax(s)], pts[argmax(diff)]>>

\* rect = (TL, TR, BR, BL).  The rows are copied into a float32 array; pixel
\* coordinates are integers below 2^24, which float32 holds exactly.
order_points(pts) ==
    LET s == [i \in 1..Len(pts) |-> np_sum(pts[i])]
        diff == [i \in 1..Len(pts) |-> np_diff(pts[i])]
    IN  <<pts[argmin(s)], pts[argmin(diff)], pts[argmax(s)], pts[argmax(diff)]>>

\* -------------------------------------------- find_card_corners (l. 51-64)

\* cv2.contourArea(cnt)
contourArea(cnt) == cnt.area

\* cv2.approxPolyDP(cnt, 0.02 * peri, True): the simplified polygon
approxPolyDP(cnt) == cnt.approx

\* x goes behind every element of s whose area is at least its own
RECURSIVE insert_desc(_, _)
insert_desc(x, s) ==
    IF s = <<>> THEN <<x>>
    ELSE IF contourArea(Head(s)) >= contourArea(x)
         THEN <<Head(s)>> \o insert_desc(x, Tail(s))
         ELSE <<x>> \o s

\* sorted(contours, key=cv2.contourArea, reverse=True): descending and
\* stable (reverse=True keeps equal keys in their original order)
RECURSIVE sorted_desc(_)
sorted_desc(cs) ==
    IF cs = <<>> THEN <<>>
    ELSE insert_desc(cs[Len(cs)], sorted_desc(SubSeq(cs, 1, Len(cs) - 1)))

take_one_more(s, k) == SubSeq(s, 1, Min(Len(s), k + 1))

\* s[:k]
take(s, k) == SubSeq(s, 1, Min(Len(s), k))

RECURSIVE first_quad_or_more(_)
first_quad_or_more(cs) ==
    IF cs = <<>> THEN None
    ELSE IF Len(approxPolyDP(Head(cs))) >= QuadVertices
         THEN Some(approxPolyDP(Head(cs)))
         ELSE first_quad_or_more(Tail(cs))

\* the loop of l. 59-64: the first polygon with exactly 4 vertices, or None
RECURSIVE first_quad(_)
first_quad(cs) ==
    IF cs = <<>> THEN None
    ELSE IF Len(approxPolyDP(Head(cs))) = QuadVertices
         THEN Some(approxPolyDP(Head(cs)))
         ELSE first_quad(Tail(cs))

\* l. 56-64, given what cv2.findContours returned
quad_search(cs) ==
    IF cs = <<>> THEN None
    ELSE first_quad(take(sorted_desc(cs), TopK))

\* --------------------------------------------- warp_perspective (l. 67-72)

\* l. 69: dst
dst_rect ==
    << <<0, 0>>, <<TARGET_W - 1, 0>>, <<TARGET_W - 1, TARGET_H - 1>>,
       <<0, TARGET_H - 1>> >>

\* cv2.getPerspectiveTransform(rect, dst): the 3x3 matrix solved from the
\* four point pairs; the matrix itself is not modelled
getPerspectiveTransform(src, dst) == [src |-> src, dst |-> dst]

\* cv2.warpPerspective resamples through cv2.remap, which asserts that every
\* side of the source and of the destination is below SHRT_MAX
SHRT_MAX == 32767

\* cv2.warpPerspective(image, M, dsize): the output has the size dsize; a
\* source or destination side of SHRT_MAX or more is a cv2.error
warpPerspective(img, M, dsize) ==
    [raised |-> \/ img.w >= SHRT_MAX
                \/ img.h >= SHRT_MAX
                \/ dsize[1] >= SHRT_MAX
                \/ dsize[2] >= SHRT_MAX,
     w |-> dsize[1], h |-> dsize[2]]

\* l. 69-72, given rect
warp_perspective(img, r) ==
    warpPerspective(img, getPerspectiveTransform(r, dst_rect),
                    <<TARGET_W, TARGET_H>>)

\* ------------------------------------------------ fallback_bbox (l. 75-83)

\* cv2.resize(src, dsize): the output has the size dsize; an empty source
\* is an error
resize(img, dsize) ==
    [raised |-> (img.w = 0 \/ img.h = 0), w |-> dsize[1], h |-> dsize[2]]

\* image[y : y + h, x : x + w]: slicing clamps to the array
crop(img, r) ==
    [w |-> Min(r.x + r.w, img.w) - Min(r.x, img.w),
     h |-> Min(r.y + r.h, img.h) - Min(r.y, img.h)]

fallback_bbox_no_resize(img, coords) ==
    IF coords = None
    THEN [raised |-> FALSE, w |-> img.w, h |-> img.h]
    ELSE resize(crop(img, Val(coords)), <<TARGET_W, TARGET_H>>)

\* coords is what cv2.findNonZero returned: None, or the non-background
\* pixels, here their cv2.boundingRect
fallback_bbox(img, coords) ==
    IF coords = None
    THEN resize(img, <<TARGET_W, TARGET_H>>)
    ELSE resize(crop(img, Val(coords)), <<TARGET_W, TARGET_H>>)

\* ------------------------------------------------- encode_image (l. 86-88)

encode_image(img) == [format |-> "jpg", quality |-> 85, w |-> img.w, h |-> img.h]

\* -------------------------------------------------- fetch_image (l. 29-37)

\* A request field is None or a string.  The strings stand for what the
\* collaborators do with them: "image" decodes to a pixel buffer, "junk" are
\* bytes cv2.imdecode returns None for, "broken" makes b64decode or
\* requests.get / raise_for_status raise.
Payloads == {"", "image", "junk", "broken"}
Fields == {None} \cup {Some(x) : x \in Payloads}
Requests == [imageBase64 : Fields, imageUrl : Fields]

Outcome(x) ==
    CASE x = "image" -> "image"
      [] x = "junk" -> "none"
      [] OTHER -> "raise"

fetch_image_url_first(r) ==
    IF Truthy(r.imageUrl)
    THEN [kind |-> Outcome(Val(r.imageUrl)), fetched |-> TRUE]
    ELSE IF Truthy(r.imageBase64)
    THEN [kind |-> Outcome(Val(r.imageBase64)), fetched |-> FALSE]
    ELSE [kind |-> "raise", fetched |-> FALSE]

\* kind: "image" (a pixel buffer is returned), "none" (None is returned),
\* "raise"; fetched: requests.get was called
fetch_image(r) ==
    IF Truthy(r.imageBase64)
    THEN [kind |-> Outcome(Val(r.imageBase64)), fetched |-> FALSE]
    ELSE IF Truthy(r.imageUrl)
    THEN [kind |-> Outcome(Val(r.imageUrl)), fetched |-> TRUE]
    ELSE [kind |-> "raise", fetched |-> FALSE]

\* ------------------------------------------------------------ input sets

\* decoded images: every small size, and a very wide and a very tall one
LargeImages == {[w |-> SHRT_MAX, h |-> TARGET_H], [w |-> TARGET_W, h |-> SHRT_MAX]}

Images == [w : 1..MaxDim, h : 1..MaxDim] \cup LargeImages

\* where a bounding box may start and how far it may reach along a side of
\* n pixels: every value for a small side, the small ones and the whole
\* side for a large one
Starts(n) == {k \in 0..(MaxDim - 1) : k < n}
Spans(n) == {k \in 1..MaxDim : k <= n} \cup {n}

\* what cv2.boundingRect can return for non-empty coords inside img
BoundingRects(img) ==
    {r \in [x : Starts(img.w), y : Starts(img.h), w : Spans(img.w), h : Spans(img.h)] :
        r.x + r.w <= img.w /\ r.y + r.h <= img.h}

Triangle == << <<0, 0>>, <<2, 0>>, <<0, 2>> >>
Pentagon == << <<0, 0>>, <<1, 0>>, <<2, 1>>, <<1, 2>>, <<0, 1>> >>
QuadFromTR == << <<2, 0>>, <<2, 1>>, <<0, 1>>, <<0, 0>> >>
Diamond == << <<1, 0>>, <<2, 1>>, <<1, 2>>, <<0, 1>> >>

SceneShapes == {Pentagon, QuadFromTR, Diamond}
FinderShapes == {Triangle, QuadFromTR}

\* External contours belong to different connected components, so no two
\* contours of one image share a point: the i-th is shifted to its own place.
Place(shape, i) ==
    [k \in DOMAIN shape |-> <<shape[k][1] + (i - 1) * (MaxCoord + 1), shape[k][2]>>]

\* a list of contours from a list of (area, shape) choices
MakeContours(f) ==
    [i \in DOMAIN f |-> [area |-> f[i][1], approx |-> Place(f[i][2], i)]]

Grid == (0..MaxCoord) \X (0..MaxCoord)

\* ----------------------------------------------- normalize (l. 91-119)

NoImage == [raised |-> FALSE, w |-> 0, h |-> 0]

Init ==
    /\ req \in Requests
    /\ pc = "RECEIVED"
    /\ image = None
    /\ edges = None
    /\ contours = None
    /\ corners = None
    /\ rect = None
    /\ warped = NoImage
    /\ response = None
    /\ status = 0
    /\ fetched = FALSE
    /\ trace = <<>>

\* l. 93-99: fetch_image; an exception or a None image is answered with 400
Fetch ==
    /\ pc = "RECEIVED"
    /\ LET out == fetch_image(req)
       IN  /\ fetched' = out.fetched
           /\ IF out.kind = "image"
              THEN /\ \E img \in Images : image' = Some(img)
                   /\ pc' = "START"
                   /\ status' = status
              ELSE /\ image' = None
                   /\ pc' = "ERROR"
                   /\ status' = 400
    /\ trace' = Append(trace, "fetch")
    /\ UNCHANGED <<req, edges, contours, corners, rect, warped, response>>

\* l. 52-54: cvtColor, GaussianBlur, Canny
EdgeDetect ==
    /\ pc = "START"
    /\ \E nz \in BOOLEAN :
          edges' = Some([w |-> Val(image).w, h |-> Val(image).h, nonzero |-> nz])
    /\ pc' = "EDGES"
    /\ trace' = Append(trace, "edges")
    /\ UNCHANGED <<req, image, contours, corners, rect, warped, response,
                   status, fetched>>

\* l. 55: cv2.findContours; an edge map with no edge pixel has no contour
ContourExtract ==
    /\ pc = "EDGES"
    /\ \E n \in 0..MaxSceneContours :
          \E f \in [1..n -> (1..MaxArea) \X SceneShapes] :
              /\ (n = 0) <=> ~Val(edges).nonzero
              /\ contours' = Some(MakeContours(f))
    /\ pc' = "CONTOURS"
    /\ trace' = Append(trace, "contours")
    /\ UNCHANGED <<req, image, edges, corners, rect, warped, response,
                   status, fetched>>

\* l. 56-64: the search, up to the return statement
QuadSearch ==
    /\ pc = "CONTOURS"
    /\ corners' = quad_search(Val(contours))
    /\ pc' = IF corners' = None THEN "QUAD_NOT_FOUND" ELSE "QUAD_FOUND"
    /\ trace' = Append(trace, "quad_search")
    /\ UNCHANGED <<req, image, edges, contours, rect, warped, response,
                   status, fetched>>

\* l. 101-103, 68: find_card_corners has returned a candidate and
\* warp_perspective orders its points
Order ==
    /\ pc = "QUAD_FOUND"
    /\ rect' = Some(order_points(Val(corners)))
    /\ pc' = "ORDER"
    /\ trace' = Append(trace, "order")
    /\ UNCHANGED <<req, image, edges, contours, corners, warped, response,
                   status, fetched>>

\* l. 69-72: the transform and the resampling; normalize has no handler
\* around l. 101-119, so an exception here is answered with 500
Warp ==
    /\ pc = "ORDER"
    /\ LET out == warp_perspective(Val(image), Val(rect))
       IN  IF out.raised
           THEN /\ pc' = "ERROR"
                /\ status' = 500
                /\ warped' = warped
           ELSE /\ pc' = "WARP"
                /\ status' = status
                /\ warped' = out
    /\ rect' = None
    /\ trace' = Append(trace, "warp")
    /\ UNCHANGED <<req, image, edges, contours, corners, response, fetched>>

\* l. 104-110
RespondPerspective ==
    /\ pc = "WARP"
    /\ response' = Some([normalizedBase64 |-> encode_image(warped),
                         width |-> TARGET_W,
                         height |-> TARGET_H,
                         method |-> "perspective",
                         corners |-> Some(Val(corners))])
    /\ status' = 200
    /\ pc' = "DONE_perspective"
    /\ trace' = Append(trace, "encode")
    /\ UNCHANGED <<req, image, edges, contours, corners, rect, warped, fetched>>

Fallback_fallthrough ==
    /\ pc \in {"QUAD_NOT_FOUND", "WARP"}
    /\ \E coords \in {None} \cup {Some(r) : r \in BoundingRects(Val(image))} :
          LET out == fallback_bbox(Val(image), coords)
          IN  /\ pc' = "FALLBACK"
              /\ status' = status
              /\ warped' = out
    /\ trace' = Append(trace, "fallback")
    /\ UNCHANGED <<req, image, edges, contours, corners, rect, response, fetched>>

\* l. 112, 75-83: find_card_corners has returned None
Fallback ==
    /\ pc = "QUAD_NOT_FOUND"
    /\ \E coords \in {None} \cup {Some(r) : r \in BoundingRects(Val(image))} :
          LET out == fallback_bbox(Val(image), coords)
          IN  IF out.raised
              THEN /\ pc' = "ERROR"
                   /\ status' = 500
                   /\ warped' = warped
              ELSE /\ pc' = "FALLBACK"
                   /\ status' = status
                   /\ warped' = out
    /\ trace' = Append(trace, "fallback")
    /\ UNCHANGED <<req, image, edges, contours, corners, rect, response, fetched>>

\* l. 113-119
RespondBbox ==
    /\ pc = "FALLBACK"
    /\ response' = Some([normalizedBase64 |-> encode_image(warped),
                         width |-> TARGET_W,
                         height |-> TARGET_H,
                         method |-> "bbox",
                         corners |-> None])
    /\ status' = 200
    /\ pc' = "DONE_bbox"
    /\ trace' = Append(trace, "encode")
    /\ UNCHANGED <<req, image, edges, contours, corners, rect, warped, fetched>>

Next ==
    \/ Fetch
    \/ EdgeDetect
    \/ ContourExtract
    \/ QuadSearch
    \/ Order
    \/ Warp
    \/ RespondPerspective
    \/ Fallback
    \/ RespondBbox

Spec == Init /\ [][Next]_vars

\* ---------------------------------- find_card_corners on its own (l. 56-64)

AnImage == [w |-> 1, h |-> 1]

InitFinder ==
    /\ req = [imageBase64 |-> Some("image"), imageUrl |-> None]
    /\ pc = "CONTOURS"
    /\ image = Some(AnImage)
    /\ \E n \in 0..MaxContours :
          \E f \in [1..n -> (1..MaxArea) \X FinderShapes] :
              /\ contours = Some(MakeContours(f))
              /\ edges = Some([w |-> AnImage.w, h |-> AnImage.h, nonzero |-> (n > 0)])
    /\ corners = None
    /\ rect = None
    /\ warped = NoImage
    /\ response = None
    /\ status = 0
    /\ fetched = FALSE
    /\ trace = <<"fetch", "edges", "contours">>

NextFinder == QuadSearch

SpecFinder == InitFinder /\ [][NextFinder]_vars

\* --------------------------------------- order_points on its own (l. 40-48)

InitOrder ==
    /\ req = [imageBase64 |-> Some("image"), imageUrl |-> None]
    /\ pc = "QUAD_FOUND"
    /\ image = Some(AnImage)
    /\ \E pts \in [1..QuadVertices -> Grid] :
          /\ corners = Some(pts)
          /\ contours = Some(<<[area |-> 1, approx |-> pts]>>)
    /\ edges = Some([w |-> AnImage.w, h |-> AnImage.h, nonzero |-> TRUE])
    /\ rect = None
    /\ warped = NoImage
    /\ response = None
    /\ status = 0
    /\ fetched = FALSE
    /\ trace = <<"fetch", "edges", "contours", "quad_search">>

NextOrder == Order

SpecOrder == InitOrder /\ [][NextOrder]_vars

\* ================================================================ claims

Done == pc \in {"DONE_perspective", "DONE_bbox"}

Ran(stage) == \E i \in 1..Len(trace) : trace[i] = stage

IsPrefix(s, t) == Len(s) <= Len(t) /\ s = SubSeq(t, 1, Len(s))

PerspectivePath ==
    <<"fetch", "edges", "contours", "quad_search", "order", "warp", "encode">>

BboxPath == <<"fetch", "edges", "contours", "quad_search", "fallback", "encode">>

Decoded == image # None

\* C1: once the image is decoded, one invocation runs the stages once each
\* in the order START, EDGES, CONTOURS, QUAD_SEARCH and then either ORDER,
\* WARP or FALLBACK, never ends in an error whatever the contours or the
\* candidate, and goes on until DONE(perspective) or DONE(bbox), which
\* carries a result.
C1_NoErrorExit ==
    Decoded =>
        /\ pc # "ERROR"
        /\ status \in {0, 200}
        /\ IsPrefix(trace, PerspectivePath) \/ IsPrefix(trace, BboxPath)
        /\ Done \/ ENABLED Next
        /\ Done => /\ response # None
                   /\ status = 200
                   /\ (pc = "DONE_perspective") <=> (trace = PerspectivePath)
                   /\ (pc = "DONE_bbox") <=> (trace = BboxPath)

\* C2: on both paths the output image is TARGET_W wide and TARGET_H high,
\* and so are the width and height fields and the encoded image of the result.
C2_FixedOutputSize ==
    /\ pc \in {"WARP", "FALLBACK", "DONE_perspective", "DONE_bbox"} =>
          warped.w = TARGET_W /\ warped.h = TARGET_H
    /\ response # None =>
          /\ Val(response).width = TARGET_W
          /\ Val(response).height = TARGET_H
          /\ Val(response).normalizedBase64.w = TARGET_W
          /\ Val(response).normalizedBase64.h = TARGET_H

C2_Witness ==
    /\ pc = "DONE_bbox"
    /\ Val(image).w # TARGET_W
    /\ Val(response).normalizedBase64.w = TARGET_W
    /\ Val(response).normalizedBase64.h = TARGET_H

\* C3: a result's method is "perspective" or "bbox"; it carries corners
\* exactly when the method is "perspective", and then exactly 4 of them.
C3_CornersIffPerspective ==
    response # None =>
        LET r == Val(response)
        IN  /\ r.method \in {"perspective", "bbox"}
            /\ (r.corners # None) <=> (r.method = "perspective")
            /\ r.method = "perspective" => Len(Val(r.corners)) = 4

C3_Witness ==
    /\ response # None
    /\ Val(response).method = "perspective"
    /\ Len(Val(Val(response).corners)) = 4
    /\ \E i \in 1..Len(Val(contours)) : Len(Val(contours)[i].approx) = 5

\* C6: the fallback runs exactly when the finder returned "not found", and
\* then the orderer and the warper do not run, and conversely; an empty
\* contour set makes the finder return "not found", the fallback run and the
\* method "bbox".
C6_FallbackIffNotFound ==
    /\ Ran("fallback") => corners = None /\ ~Ran("order") /\ ~Ran("warp")
    /\ Ran("order") \/ Ran("warp") => corners # None /\ ~Ran("fallback")
    /\ Ran("quad_search") /\ Val(contours) = <<>> => corners = None
    /\ pc = "QUAD_NOT_FOUND" <=> (Ran("quad_search") /\ corners = None /\ ~Ran("fallback"))
    /\ pc = "QUAD_NOT_FOUND" => ENABLED Fallback /\ ~ENABLED Order
    /\ pc = "QUAD_FOUND" => ENABLED Order /\ ~ENABLED Fallback
    /\ Done => /\ Ran("fallback") <=> corners = None
               /\ (Ran("order") /\ Ran("warp")) <=> corners # None
               /\ corners = None <=> Val(response).method = "bbox"
               /\ Val(contours) = <<>> => Val(response).method = "bbox"

C6_Witness ==
    /\ pc = "DONE_bbox"
    /\ Val(contours) = <<>>
    /\ Ran("fallback")
    /\ Val(response).method = "bbox"

PipelineStages ==
    {"edges", "contours", "quad_search", "order", "warp", "fallback", "encode"}

Undecodable == fetch_image(req).kind # "image"

\* C7: a request with no usable image source, or whose bytes do not decode,
\* is answered with a client error and no result, and no pipeline stage runs
\* for it; a request with a non-empty imageBase64 never causes a fetch.
C7_BadInputRejected ==
    /\ (Undecodable /\ pc # "RECEIVED") =>
          /\ pc = "ERROR"
          /\ status = 400
          /\ response = None
          /\ image = None
          /\ \A st \in PipelineStages : ~Ran(st)
          /\ ~ENABLED Next
    /\ Undecodable => response = None /\ \A st \in PipelineStages : ~Ran(st)
    /\ Truthy(req.imageBase64) => ~fetched

C7_Witness ==
    /\ pc = "ERROR"
    /\ status = 400
    /\ Truthy(req.imageBase64)
    /\ Val(req.imageBase64) = "junk"
    /\ Truthy(req.imageUrl)
    /\ Val(req.imageUrl) = "image"

\* ---- C8: find_card_corners, under SpecFinder

Searched == pc \in {"QUAD_FOUND", "QUAD_NOT_FOUND"}

\* how many contours come before the i-th in descending-area order, equal
\* areas in detection order
Rank(cs, i) ==
    Cardinality({j \in 1..Len(cs) :
        \/ cs[j].area > cs[i].area
        \/ cs[j].area = cs[i].area /\ j < i})

Examined(cs) == {i \in 1..Len(cs) : Rank(cs, i) < 5}

IsQuad(cs, i) == Len(cs[i].approx) = 4

\* C8: the finder looks at the 5 largest contours at most, largest first and
\* equal areas in detection order, returns the polygon of the first of them
\* that has 4 vertices, and returns "not found" exactly when none of them has.
C8_FirstQuadOfTopFive ==
    Searched =>
        LET cs == Val(contours)
            hits == {i \in Examined(cs) : IsQuad(cs, i)}
        IN  /\ (corners = None) <=> (hits = {})
            /\ hits # {} =>
                  \E i \in hits :
                      /\ \A j \in hits : Rank(cs, i) <= Rank(cs, j)
                      /\ corners = Some(cs[i].approx)

\* not found although the contour ranked 6th is a quadrilateral
C8_Witness ==
    /\ pc = "QUAD_NOT_FOUND"
    /\ LET cs == Val(contours)
       IN  /\ Len(cs) > 5
           /\ \E i \in 1..Len(cs) : IsQuad(cs, i) /\ Rank(cs, i) = 5
           /\ \E i, j \in 1..Len(cs) : i # j /\ cs[i].area = cs[j].area

\* ---- C5, C9, C10: order_points, under SpecOrder

Ordered == pc = "ORDER"

XPlusY(p) == p[1] + p[2]
XMinusY(p) == p[1] - p[2]

IsFirstMin(pts, i, key(_)) ==
    /\ \A j \in 1..Len(pts) : key(pts[i]) <= key(pts[j])
    /\ \A j \in 1..(i - 1) : key(pts[j]) # key(pts[i])

IsFirstMax(pts, i, key(_)) ==
    /\ \A j \in 1..Len(pts) : key(pts[i]) >= key(pts[j])
    /\ \A j \in 1..(i - 1) : key(pts[j]) # key(pts[i])

\* C5 as stated: TL minimizes x+y, BR maximizes x+y, TR minimizes x-y, BL
\* maximizes x-y, each the first such point of the input.
C5_AsStated ==
    Ordered =>
        LET pts == Val(corners)
        IN  \E tl, tr, br, bl \in 1..Len(pts) :
                /\ IsFirstMin(pts, tl, XPlusY)
                /\ IsFirstMin(pts, tr, XMinusY)
                /\ IsFirstMax(pts, br, XPlusY)
                /\ IsFirstMax(pts, bl, XMinusY)
                /\ Val(rect) = <<pts[tl], pts[tr], pts[br], pts[bl]>>

\* C5 amended: TL minimizes x+y, BR maximizes x+y, TR maximizes x-y (it
\* minimizes y-x), BL minimizes x-y (it maximizes y-x), each the first such
\* point of the input.
C5_Labels ==
    Ordered =>
        LET pts == Val(corners)
        IN  \E tl, tr, br, bl \in 1..Len(pts) :
                /\ IsFirstMin(pts, tl, XPlusY)
                /\ IsFirstMax(pts, tr, XMinusY)
                /\ IsFirstMax(pts, br, XPlusY)
                /\ IsFirstMin(pts, bl, XMinusY)
                /\ Val(rect) = <<pts[tl], pts[tr], pts[br], pts[bl]>>

\* an input where two points tie for the least x+y and two for the greatest x-y
C5_Witness ==
    /\ Ordered
    /\ LET pts == Val(corners)
       IN  /\ \E i, j \in 1..4 :
                 i < j /\ IsFirstMin(pts, i, XPlusY) /\ XPlusY(pts[j]) = XPlusY(pts[i])
                       /\ pts[i] # pts[j] /\ Val(rect)[1] = pts[i]
           /\ \E i, j \in 1..4 :
                 i < j /\ IsFirstMax(pts, i, XMinusY) /\ XMinusY(pts[j]) = XMinusY(pts[i])
                       /\ pts[i] # pts[j] /\ Val(rect)[2] = pts[i]

Distinct(pts) == \A i, j \in 1..Len(pts) : i # j => pts[i] # pts[j]

Perms == {f \in [1..QuadVertices -> 1..QuadVertices] :
             \A i, j \in 1..QuadVertices : i # j => f[i] # f[j]}

Permuted(pts, f) == [i \in 1..QuadVertices |-> pts[f[i]]]

\* each of the four extremes is attained by one point only
UniqueExtremes(pts) ==
    /\ \E i \in 1..4 : \A j \in 1..4 : j # i => XPlusY(pts[i]) < XPlusY(pts[j])
    /\ \E i \in 1..4 : \A j \in 1..4 : j # i => XPlusY(pts[i]) > XPlusY(pts[j])
    /\ \E i \in 1..4 : \A j \in 1..4 : j # i => XMinusY(pts[i]) < XMinusY(pts[j])
    /\ \E i \in 1..4 : \A j \in 1..4 : j # i => XMinusY(pts[i]) > XMinusY(pts[j])

\* C9 as stated: for 4 distinct points, every reordering of the input gives
\* the same (TL, TR, BR, BL).
C9_AsStated ==
    (Ordered /\ Distinct(Val(corners))) =>
        \A f \in Perms : order_points(Permuted(Val(corners), f)) = Val(rect)

\* C9 amended: for 4 distinct points whose least and greatest x+y and least
\* and greatest x-y are each attained by one point only, every reordering of
\* the input gives the same (TL, TR, BR, BL).
C9_OrderIndependent ==
    (Ordered /\ Distinct(Val(corners)) /\ UniqueExtremes(Val(corners))) =>
        \A f \in Perms : order_points(Permuted(Val(corners), f)) = Val(rect)

\* an input with unique extremes that is not given in (TL, TR, BR, BL) order
C9_Witness ==
    /\ Ordered
    /\ Distinct(Val(corners))
    /\ UniqueExtremes(Val(corners))
    /\ Val(rect) # Val(corners)
    /\ Val(rect)[1] = Val(corners)[3]

\* C10: for 4 distinct points the labels go to 4 different input points, so
\* (TL, TR, BR, BL) is a permutation of the input.
C10_LabelsArePermutation ==
    (Ordered /\ Distinct(Val(corners))) =>
        \E f \in Perms : Val(rect) = Permuted(Val(corners), f)

\* ---- C4: the corners in the response, under Spec

\* C4: the corners of a perspective result are the ordered (TL, TR, BR, BL)
\* the warp used: the first has the least x+y of the four and the third the
\* greatest.
C4_ReportedCornersOrdered ==
    pc = "DONE_perspective" =>
        LET c == Val(Val(response).corners)
        IN  /\ c = order_points(Val(corners))
            /\ \A j \in 1..Len(c) : XPlusY(c[1]) <= XPlusY(c[j])
            /\ \A j \in 1..Len(c) : XPlusY(c[3]) >= XPlusY(c[j])

====
